---- MODULE Spec2Model ----
(***************************************************************************)
(* Model of main.py: the consultation endpoint of the NeuralForge API.     *)
(*                                                                         *)
(* POST /api/consultation validates the body into a ConsultationRequest,   *)
(* then submit_consultation calls send_email_notification and              *)
(* send_confirmation_email, each of which composes a MIME message and      *)
(* runs one smtplib.SMTP session (connect, STARTTLS, login, send_message,  *)
(* QUIT/close), and answers from the two boolean results.                  *)
(*                                                                         *)
(* Strings are TLA+ strings, except e-mail addresses, which are sequences  *)
(* of characters so that their syntax can be checked.  An Optional value   *)
(* is <<>> (None / absent) or <<v>>.                                       *)
(***************************************************************************)
EXTENDS Integers, Sequences, FiniteSets, TLC

\* ------------------------------------------------------------------ bounds
\* Number of submissions the callers make in one behaviour.
MaxRequests == 3

\* Concurrent callers (HTTP connections), each with one request in flight.
Callers == {"c1", "c2"}

\* ------------------------------------------------------------- basic values
None == <<>>
Some(v) == <<v>>

NoOne == "-"

\* ---------------------------------------------------------------- variables
VARIABLES
    EMAIL_CONFIG,       \* the module-level configuration dictionary
    submitted,          \* number of submissions made so far
    running,            \* the caller whose handler occupies the event loop
    body,               \* caller -> JSON body of its request in flight
    consultation,       \* caller -> Optional validated ConsultationRequest
    pc,                 \* caller -> [fn, at]: position of its request
    notification_sent,  \* caller -> Optional BOOLEAN (handler local)
    confirmation_sent,  \* caller -> Optional BOOLEAN (handler local)
    msg,                \* caller -> Optional composed message (send local)
    server,             \* caller -> steps completed in the open SMTP session
    exc,                \* caller -> Optional exception in flight
    relay,              \* caller -> what the mail relay saw for the request
    errors,             \* caller -> logger.error lines of the request
    response            \* caller -> Optional HTTP response

vars == <<EMAIL_CONFIG, submitted, running, body, consultation, pc,
          notification_sent, confirmation_sent, msg, server, exc, relay,
          errors, response>>

\* ------------------------------------------------------------ configuration
\* The defaults of os.getenv at import time.
SenderAddr ==
    <<"y", "o", "u", "r", "-", "e", "m", "a", "i", "l", "@",
      "g", "m", "a", "i", "l", ".", "c", "o", "m">>
ReceiverAddr ==
    <<"h", "e", "l", "l", "o", "@",
      "n", "e", "u", "r", "a", "l", "f", "o", "r", "g", "e", ".", "a", "i">>

StartupConfig ==
    [smtp_server     |-> "smtp.gmail.com",
     smtp_port       |-> 587,
     sender_email    |-> SenderAddr,
     sender_password |-> "your-app-password",
     receiver_email  |-> ReceiverAddr]

\* ------------------------------------------------------------------- inputs
AnnAddr == <<"a", "@", "x", ".", "i", "o">>
BobAddr == <<"b", "@", "y", ".", "i", "o">>
BadAddr == <<"b", ".", "y", ".", "i", "o">>

\* A message text holding a lone surrogate code point (JSON "\ud800").
SurrogateText == "Hi \\ud800"

\* JSON bodies the callers post: each key is absent (None) or present.
Bodies ==
    { [name |-> Some("Ann"), email |-> Some(AnnAddr), company |-> None,
       message |-> Some("Hi")],
      [name |-> Some("Bob"), email |-> Some(BobAddr), company |-> Some("Acme"),
       message |-> Some("Yo")],
      [name |-> Some("Ann"), email |-> Some(AnnAddr), company |-> Some(""),
       message |-> Some("Hi")],
      [name |-> Some("Ann"), email |-> Some(AnnAddr), company |-> None,
       message |-> Some(SurrogateText)],
      [name |-> Some("Bob"), email |-> Some(BadAddr), company |-> Some("Acme"),
       message |-> Some("Yo")],
      [name |-> Some("Bob"), email |-> None, company |-> Some("Acme"),
       message |-> Some("Yo")] }

\* ------------------------------------------------------- ConsultationRequest
\* Positions of "@" in an address.
AtPositions(e) == {i \in 1..Len(e) : e[i] = "@"}

\* EmailStr: one "@", a non-empty local part, and a domain of at least two
\* non-empty labels.
EmailStr(e) ==
    /\ Cardinality(AtPositions(e)) = 1
    /\ LET at == CHOOSE i \in AtPositions(e) : TRUE
       IN  /\ at > 1
           /\ at < Len(e)
           /\ e[at + 1] # "."
           /\ e[Len(e)] # "."
           /\ \E i \in (at + 1)..Len(e) : e[i] = "."
           /\ \A i \in (at + 1)..(Len(e) - 1) : ~(e[i] = "." /\ e[i + 1] = ".")

\* ValidBody with the field declared "email: str": present, syntax unchecked.
ValidBody_str(b) ==
    /\ b.name # None
    /\ b.message # None
    /\ b.email # None

\* Field validation of the model: name, email and message are required,
\* email must be an EmailStr, company is optional.
ValidBody(b) ==
    /\ b.name # None
    /\ b.message # None
    /\ b.email # None
    /\ EmailStr(b.email[1])

\* The ConsultationRequest built from a valid body.
ConsultationRequest(b) ==
    [name |-> b.name[1], email |-> b.email[1], company |-> b.company,
     message |-> b.message[1]]

\* -------------------------------------------------------------- composition
\* CompanyOrDefault written "company if company is not None else ...".
CompanyOrDefault_isnone(company) ==
    IF company # None THEN company[1] ELSE "Not provided"

\* f"{consultation.company or 'Not provided'}": None and "" are falsy.
CompanyOrDefault(company) ==
    IF company # None /\ company[1] # "" THEN company[1] ELSE "Not provided"

\* A str with a lone surrogate cannot be encoded by MIMEText (us-ascii, then
\* utf-8), which raises UnicodeEncodeError.
Encodable(s) == s # SurrogateText

\* The fields interpolated into the bodies of each message.
BodyFields(fn, c) ==
    IF fn = "notification"
    THEN {c.name, CompanyOrDefault(c.company), c.message}
    ELSE {c.name}

\* The template slots of the notification's plain-text and HTML parts.
NotificationPart(subtype, c) ==
    [subtype |-> subtype,
     name    |-> c.name,
     email   |-> c.email,
     company |-> CompanyOrDefault(c.company),
     message |-> c.message]

\* The message send_email_notification builds.
NotificationMessage(c, cfg) ==
    [subject |-> "New Consultation Request from " \o c.name,
     from    |-> cfg.sender_email,
     to      |-> cfg.receiver_email,
     parts   |-> <<NotificationPart("plain", c), NotificationPart("html", c)>>]

\* ConfirmationMessage reading the request from a module-level variable that
\* the latest submission overwrites, instead of from its own argument.
ConfirmationMessage_shared(c, cfg) ==
    LET others == {q \in Callers : consultation[q] # None
                                    /\ consultation[q][1].email # c.email}
        seen   == IF others = {} THEN c
                  ELSE consultation[CHOOSE q \in others : TRUE][1]
    IN  [subject |-> "Thank you for your consultation request - NeuralForge AI",
         from    |-> cfg.sender_email,
         to      |-> seen.email,
         parts   |-> <<[subtype |-> "html", name |-> seen.name]>>]

\* The message send_confirmation_email builds.
ConfirmationMessage(c, cfg) ==
    [subject |-> "Thank you for your consultation request - NeuralForge AI",
     from    |-> cfg.sender_email,
     to      |-> c.email,
     parts   |-> <<[subtype |-> "html", name |-> c.name]>>]

Message(fn, c, cfg) ==
    IF fn = "notification" THEN NotificationMessage(c, cfg)
    ELSE ConfirmationMessage(c, cfg)

\* ------------------------------------------------------ results of functions
Return(v) == [kind |-> "return", value |-> v]
Raise(e) == [kind |-> "raise", exc |-> e]

Exception(type) == [type |-> type, status_code |-> 0, detail |-> ""]
HTTPException(status_code, detail) ==
    [type |-> "HTTPException", status_code |-> status_code, detail |-> detail]

DetailFailed ==
    "Failed to process consultation request. Please try again later."
DetailGeneric ==
    "An error occurred while processing your request. Please try again."
SuccessMessage ==
    "Your consultation request has been received. We'll be in touch soon!"

\* send_except logging and re-raising instead of returning False.
send_except_reraise(e) == Raise(e)

\* "except Exception as e: logger.error(...); return False" of both sends.
send_except(e) == Return(FALSE)

\* The exception a failing step of the SMTP session raises.
StepError(at) ==
    CASE at = "starttls"     -> Exception("SMTPNotSupportedError")
      [] at = "login"        -> Exception("SMTPAuthenticationError")
      [] at = "send_message" -> Exception("SMTPRecipientsRefused")

\* NextStep with the login statement left out.
NextStep_skiplogin(at) ==
    CASE at = "starttls"     -> "send_message"
      [] at = "login"        -> "send_message"
      [] at = "send_message" -> "exit"

\* Order of the statements in the body of the with-block.
NextStep(at) ==
    CASE at = "starttls"     -> "login"
      [] at = "login"        -> "send_message"
      [] at = "send_message" -> "exit"

\* SessionAfterExit without the with-block: quit() only on the normal path.
SessionAfterExit_leak(s, e) == IF e # None THEN s ELSE <<>>

\* SMTP.__exit__: the session object after leaving the with-block, with or
\* without an exception in flight.
SessionAfterExit(s, e) == <<>>

\* AfterSend calling a send again when it returned False.
AfterSend_retry(fn, sent) ==
    IF ~sent THEN [fn |-> fn, at |-> "compose"]
    ELSE IF fn = "notification" THEN [fn |-> "confirmation", at |-> "compose"]
    ELSE [fn |-> "handler", at |-> "decide"]

\* Where submit_consultation continues after a send returned.
AfterSend(fn, sent) ==
    IF fn = "notification" THEN [fn |-> "confirmation", at |-> "compose"]
    ELSE [fn |-> "handler", at |-> "decide"]

\* Decide requiring both sends: "if not n or not c".
Decide_or(n, c) ==
    IF ~n \/ ~c THEN Raise(HTTPException(500, DetailFailed))
    ELSE Return(SuccessMessage)

\* Decide without the check of the two results.
Decide_always(n, c) == Return(SuccessMessage)

\* "if not notification_sent and not confirmation_sent: raise ...; return ..."
Decide(n, c) ==
    IF ~n /\ ~c THEN Raise(HTTPException(500, DetailFailed))
    ELSE Return(SuccessMessage)

\* HandlerExcept preceded by "except HTTPException: raise".
HandlerExcept_reraise(outcome) ==
    IF outcome.kind = "raise" /\ outcome.exc.type # "HTTPException"
    THEN Raise(HTTPException(500, DetailGeneric))
    ELSE outcome

\* "except Exception as e" of submit_consultation: HTTPException is an
\* Exception, so the handler's own raise is caught here as well.
HandlerExcept(outcome) ==
    IF outcome.kind = "raise" THEN Raise(HTTPException(500, DetailGeneric))
    ELSE outcome

\* The response the framework sends for the handler's outcome.
HttpResponse(outcome) ==
    IF outcome.kind = "raise"
    THEN [status |-> outcome.exc.status_code, success |-> FALSE,
          text |-> outcome.exc.detail]
    ELSE [status |-> 200, success |-> TRUE, text |-> outcome.value]

\* The response to a body that fails validation.
ValidationResponse ==
    [status |-> 422, success |-> FALSE, text |-> "validation error"]

\* ------------------------------------------------------------------- state
Sends == {"notification", "confirmation"}

Idle == [fn |-> "client", at |-> "idle"]

Init ==
    /\ EMAIL_CONFIG = StartupConfig
    /\ submitted = 0
    /\ running = NoOne
    /\ body = [r \in Callers |-> None]
    /\ consultation = [r \in Callers |-> None]
    /\ pc = [r \in Callers |-> Idle]
    /\ notification_sent = [r \in Callers |-> None]
    /\ confirmation_sent = [r \in Callers |-> None]
    /\ msg = [r \in Callers |-> None]
    /\ server = [r \in Callers |-> <<>>]
    /\ exc = [r \in Callers |-> None]
    /\ relay = [r \in Callers |-> <<>>]
    /\ errors = [r \in Callers |-> <<>>]
    /\ response = [r \in Callers |-> None]

\* What the relay records: a refused connection, an opened session, a
\* message accepted in a session (with the steps the session had completed),
\* a closed session.
RelayEvent(ev, fn, m, via) == [ev |-> ev, fn |-> fn, msg |-> m, via |-> via]

LogLine(where, e) == [where |-> where, text |-> e.type]

\* A send function leaves with outcome o: its locals die, and the handler
\* stores the returned value or sees the exception.
Finish(r, fn, o) ==
    /\ msg' = [msg EXCEPT ![r] = None]
    /\ IF o.kind = "return"
       THEN /\ pc' = [pc EXCEPT ![r] = AfterSend(fn, o.value)]
            /\ exc' = [exc EXCEPT ![r] = None]
            /\ IF fn = "notification"
               THEN /\ notification_sent' =
                           [notification_sent EXCEPT ![r] = Some(o.value)]
                    /\ UNCHANGED confirmation_sent
               ELSE /\ confirmation_sent' =
                           [confirmation_sent EXCEPT ![r] = Some(o.value)]
                    /\ UNCHANGED notification_sent
       ELSE /\ pc' = [pc EXCEPT ![r] = [fn |-> "handler", at |-> "decide"]]
            /\ exc' = [exc EXCEPT ![r] = Some(o.exc)]
            /\ UNCHANGED <<notification_sent, confirmation_sent>>

\* The except clause of a send function runs for exception e.
Caught(r, fn, e) ==
    /\ errors' = [errors EXCEPT ![r] = Append(@, LogLine(fn, e))]
    /\ Finish(r, fn, send_except(e))

\* ----------------------------------------------------------------- actions
\* A caller posts a body; the framework validates it before the handler.
Submit(r, b) ==
    /\ pc[r] = Idle
    /\ submitted < MaxRequests
    /\ submitted' = submitted + 1
    /\ body' = [body EXCEPT ![r] = Some(b)]
    /\ IF ValidBody(b)
       THEN /\ consultation' =
                   [consultation EXCEPT ![r] = Some(ConsultationRequest(b))]
            /\ pc' = [pc EXCEPT ![r] = [fn |-> "framework", at |-> "queued"]]
            /\ UNCHANGED response
       ELSE /\ pc' = [pc EXCEPT ![r] = [fn |-> "framework", at |-> "rejected"]]
            /\ response' = [response EXCEPT ![r] = Some(ValidationResponse)]
            /\ UNCHANGED consultation
    /\ UNCHANGED <<EMAIL_CONFIG, running, notification_sent,
                   confirmation_sent, msg, server, exc, relay, errors>>

\* submit_consultation starts; it is a coroutine without await, so it keeps
\* the event loop until it returns.
Enter(r) ==
    /\ pc[r] = [fn |-> "framework", at |-> "queued"]
    /\ running = NoOne
    /\ running' = r
    /\ pc' = [pc EXCEPT ![r] = [fn |-> "notification", at |-> "compose"]]
    /\ UNCHANGED <<EMAIL_CONFIG, submitted, body, consultation,
                   notification_sent, confirmation_sent, msg, server, exc,
                   relay, errors, response>>

\* The send function builds its MIME message.
Compose(r) ==
    /\ pc[r].fn \in Sends
    /\ pc[r].at = "compose"
    /\ LET fn == pc[r].fn
           c  == consultation[r][1]
       IN  IF \A s \in BodyFields(fn, c) : Encodable(s)
           THEN /\ msg' = [msg EXCEPT ![r] = Some(Message(fn, c, EMAIL_CONFIG))]
                /\ pc' = [pc EXCEPT ![r] = [fn |-> fn, at |-> "connect"]]
                /\ UNCHANGED <<notification_sent, confirmation_sent, exc,
                               errors>>
           ELSE Caught(r, fn, Exception("UnicodeEncodeError"))
    /\ UNCHANGED <<EMAIL_CONFIG, submitted, running, body, consultation,
                   server, relay, response>>

\* smtplib.SMTP(host, port): the relay accepts the connection or not.
Connect(r) ==
    /\ pc[r].fn \in Sends
    /\ pc[r].at = "connect"
    /\ LET fn == pc[r].fn
       IN  \E ok \in BOOLEAN :
             IF ok
             THEN /\ server' = [server EXCEPT ![r] = <<"connect">>]
                  /\ relay' = [relay EXCEPT ![r] =
                                 Append(@, RelayEvent("open", fn, None, <<>>))]
                  /\ pc' = [pc EXCEPT ![r] = [fn |-> fn, at |-> "starttls"]]
                  /\ UNCHANGED <<notification_sent, confirmation_sent, msg,
                                 exc, errors>>
             ELSE /\ relay' = [relay EXCEPT ![r] =
                                 Append(@, RelayEvent("refused", fn, None, <<>>))]
                  /\ Caught(r, fn, Exception("SMTPConnectError"))
                  /\ UNCHANGED server
    /\ UNCHANGED <<EMAIL_CONFIG, submitted, running, body, consultation,
                   response>>

\* One statement of the with-block: server.starttls(), server.login(...) or
\* server.send_message(msg).  A failure raises and leaves the block.
BodyStep(r, at) ==
    /\ pc[r].fn \in Sends
    /\ pc[r].at = at
    /\ LET fn == pc[r].fn
       IN  \E ok \in BOOLEAN :
             IF ok
             THEN /\ pc' = [pc EXCEPT ![r] = [fn |-> fn, at |-> NextStep(at)]]
                  /\ IF at = "send_message"
                     THEN /\ relay' = [relay EXCEPT ![r] =
                                Append(@, RelayEvent("data", fn, msg[r], server[r]))]
                          /\ UNCHANGED server
                     ELSE /\ server' = [server EXCEPT ![r] = Append(@, at)]
                          /\ UNCHANGED relay
                  /\ UNCHANGED exc
             ELSE /\ pc' = [pc EXCEPT ![r] = [fn |-> fn, at |-> "exit"]]
                  /\ exc' = [exc EXCEPT ![r] = Some(StepError(at))]
                  /\ UNCHANGED <<server, relay>>
    /\ UNCHANGED <<EMAIL_CONFIG, submitted, running, body, consultation,
                   notification_sent, confirmation_sent, msg, errors,
                   response>>

StartTLS(r) == BodyStep(r, "starttls")
Login(r) == BodyStep(r, "login")
SendMessage(r) == BodyStep(r, "send_message")

\* Leaving the with-block: SMTP.__exit__ sends QUIT (a reply other than 221
\* raises SMTPResponseException) and closes the socket in its finally; then
\* the function returns True, or its except clause returns False.
ExitSession(r) ==
    /\ pc[r].fn \in Sends
    /\ pc[r].at = "exit"
    /\ LET fn == pc[r].fn
           s  == SessionAfterExit(server[r], exc[r])
       IN  /\ server' = [server EXCEPT ![r] = s]
           /\ relay' = [relay EXCEPT ![r] =
                          IF s = <<>>
                          THEN Append(@, RelayEvent("close", fn, None, <<>>))
                          ELSE @]
           /\ \E quit_ok \in BOOLEAN :
                LET e == IF quit_ok THEN exc[r]
                         ELSE Some(Exception("SMTPResponseException"))
                IN  IF e = None
                    THEN /\ Finish(r, fn, Return(TRUE))
                         /\ UNCHANGED errors
                    ELSE Caught(r, fn, e[1])
    /\ UNCHANGED <<EMAIL_CONFIG, submitted, running, body, consultation,
                   response>>

\* The end of submit_consultation: the check of the two results, the
\* handler's except clause, and the response.
Respond(r) ==
    /\ pc[r] = [fn |-> "handler", at |-> "decide"]
    /\ LET o == IF exc[r] # None THEN Raise(exc[r][1])
                ELSE Decide(notification_sent[r][1], confirmation_sent[r][1])
       IN  /\ response' = [response EXCEPT ![r] =
                              Some(HttpResponse(HandlerExcept(o)))]
           /\ errors' = [errors EXCEPT ![r] =
                           IF o.kind = "raise"
                           THEN Append(@, LogLine("handler", o.exc))
                           ELSE @]
    /\ exc' = [exc EXCEPT ![r] = None]
    /\ pc' = [pc EXCEPT ![r] = [fn |-> "framework", at |-> "done"]]
    /\ running' = NoOne
    /\ UNCHANGED <<EMAIL_CONFIG, submitted, body, consultation,
                   notification_sent, confirmation_sent, msg, server, relay>>

\* The caller has its response; its connection carries the next request.
NextRequest(r) ==
    /\ pc[r].fn = "framework"
    /\ pc[r].at \in {"done", "rejected"}
    /\ submitted < MaxRequests
    /\ pc' = [pc EXCEPT ![r] = Idle]
    /\ body' = [body EXCEPT ![r] = None]
    /\ consultation' = [consultation EXCEPT ![r] = None]
    /\ notification_sent' = [notification_sent EXCEPT ![r] = None]
    /\ confirmation_sent' = [confirmation_sent EXCEPT ![r] = None]
    /\ relay' = [relay EXCEPT ![r] = <<>>]
    /\ errors' = [errors EXCEPT ![r] = <<>>]
    /\ response' = [response EXCEPT ![r] = None]
    /\ UNCHANGED <<EMAIL_CONFIG, submitted, running, msg, server, exc>>

Next ==
    \E r \in Callers :
        \/ \E b \in Bodies : Submit(r, b)
        \/ Enter(r)
        \/ Compose(r)
        \/ Connect(r)
        \/ StartTLS(r)
        \/ Login(r)
        \/ SendMessage(r)
        \/ ExitSession(r)
        \/ Respond(r)
        \/ NextRequest(r)

Spec == Init /\ [][Next]_vars

TypeOK == submitted \in 0..MaxRequests

\* --------------------------------------------------------------- properties
Done(r) == pc[r] = [fn |-> "framework", at |-> "done"]
Rejected(r) == pc[r] = [fn |-> "framework", at |-> "rejected"]

SuccessResponse == [status |-> 200, success |-> TRUE, text |-> SuccessMessage]

\* Indices of the relay events of kind ev that function fn caused.
Events(r, ev, fn) ==
    {i \in DOMAIN relay[r] : relay[r][i].ev = ev /\ relay[r][i].fn = fn}

AllSteps == <<"connect", "starttls", "login">>

\* C1: a request of which at least one send returned True is answered with
\* the success response, also when exactly one of the two sends failed.
C1_SuccessWhenOneSendSucceeds ==
    \A r \in Callers :
        (/\ Done(r)
         /\ \/ notification_sent[r] = Some(TRUE)
            \/ confirmation_sent[r] = Some(TRUE))
        => response[r] = Some(SuccessResponse)

\* Both partial failures are answered with success at the same time.
C1_Witness ==
    \E r, q \in Callers :
        /\ Done(r) /\ Done(q)
        /\ notification_sent[r] = Some(TRUE) /\ confirmation_sent[r] = Some(FALSE)
        /\ notification_sent[q] = Some(FALSE) /\ confirmation_sent[q] = Some(TRUE)
        /\ response[r] = Some(SuccessResponse)
        /\ response[q] = Some(SuccessResponse)

\* C2: a request both of whose sends returned False is answered with HTTP
\* 500 and not with success, and a request answered with success has had at
\* least one message accepted by the relay.
C2_ErrorWhenBothSendsFail ==
    \A r \in Callers :
        /\ (/\ Done(r)
            /\ notification_sent[r] = Some(FALSE)
            /\ confirmation_sent[r] = Some(FALSE))
           => /\ response[r] # None
              /\ response[r][1].status = 500
              /\ ~response[r][1].success
        /\ (response[r] # None /\ response[r][1].success)
           => \E fn \in Sends : Events(r, "data", fn) # {}

\* Both connections were refused and the answer is the 500 error.
C2_Witness ==
    \E r \in Callers :
        /\ Done(r)
        /\ notification_sent[r] = Some(FALSE)
        /\ confirmation_sent[r] = Some(FALSE)
        /\ Events(r, "refused", "notification") # {}
        /\ Events(r, "refused", "confirmation") # {}
        /\ response[r][1].status = 500

\* C3: a request whose email is missing or not an e-mail address never gets
\* into the handler: the relay sees nothing of it, no session exists for it,
\* and its answer is the validation rejection, not success and not the 500.
C3_InvalidEmailRejectedBeforeSend ==
    \A r \in Callers :
        (/\ body[r] # None
         /\ \/ body[r][1].email = None
            \/ ~EmailStr(body[r][1].email[1]))
        => /\ Rejected(r)
           /\ consultation[r] = None
           /\ relay[r] = <<>>
           /\ server[r] = <<>>
           /\ msg[r] = None
           /\ running # r
           /\ response[r] = Some(ValidationResponse)
           /\ response[r][1].status \notin {200, 500}

\* A malformed and a missing address are both rejected, while the relay has
\* seen nothing of either.
C3_Witness ==
    \E r, q \in Callers :
        /\ body[r] # None /\ body[r][1].email = Some(BadAddr)
        /\ body[q] # None /\ body[q][1].email = None
        /\ Rejected(r) /\ Rejected(q)
        /\ relay[r] = <<>> /\ relay[q] = <<>>

\* C4: once the handler is past its two calls, both sends have run and
\* returned a boolean, whatever the other one returned; every exception of a
\* send was logged by that send and turned into its result False, and no
\* exception of a send reaches the handler.
C4_SendsIndependent ==
    \A r \in Callers :
        /\ (pc[r].fn = "handler" \/ Done(r))
           => /\ notification_sent[r] # None
              /\ confirmation_sent[r] # None
              /\ exc[r] = None
              /\ \A fn \in Sends : Events(r, "open", fn) \cup Events(r, "refused", fn) = {}
                    => \E i \in DOMAIN errors[r] :
                          /\ errors[r][i].where = fn
                          /\ errors[r][i].text = "UnicodeEncodeError"
        /\ \A i \in DOMAIN errors[r] :
              /\ errors[r][i].where = "notification"
                    => notification_sent[r] = Some(FALSE)
              /\ errors[r][i].where = "confirmation"
                    => confirmation_sent[r] = Some(FALSE)
              /\ errors[r][i].where = "handler"
                    => errors[r][i].text = "HTTPException"

\* The notification failed at composition and the confirmation failed at
\* login for one caller; the notification failed at connect and the
\* confirmation was delivered for the other.
C4_Witness ==
    \E r, q \in Callers :
        /\ Done(r) /\ Done(q)
        /\ errors[r] = <<LogLine("notification", Exception("UnicodeEncodeError")),
                         LogLine("confirmation", Exception("SMTPAuthenticationError")),
                         LogLine("handler", HTTPException(500, DetailFailed))>>
        /\ errors[q] = <<LogLine("notification", Exception("SMTPConnectError"))>>
        /\ confirmation_sent[q] = Some(TRUE)
        /\ Events(q, "data", "confirmation") # {}

\* C5: a session is open only inside the with-block of a send; when a send
\* has returned, and when the response is produced, every session the
\* request opened has been closed.
C5_SessionsClosed ==
    \A r \in Callers :
        /\ server[r] # <<>>
           => /\ pc[r].fn \in Sends
              /\ pc[r].at \in {"starttls", "login", "send_message", "exit"}
        /\ (pc[r].fn \in Sends /\ pc[r].at \in {"compose", "connect"})
           => \A fn \in Sends :
                 Cardinality(Events(r, "open", fn)) = Cardinality(Events(r, "close", fn))
        /\ (pc[r].fn = "handler" \/ Done(r))
           => \A fn \in Sends :
                 Cardinality(Events(r, "open", fn)) = Cardinality(Events(r, "close", fn))

\* STARTTLS raised in one session and send_message in the other, QUIT was
\* refused as well, and both sessions are closed at the response.
C5_Witness ==
    \E r \in Callers :
        /\ Done(r)
        /\ server[r] = <<>>
        /\ errors[r] = <<LogLine("notification", Exception("SMTPNotSupportedError")),
                         LogLine("confirmation", Exception("SMTPResponseException")),
                         LogLine("handler", HTTPException(500, DetailFailed))>>
        /\ Events(r, "close", "notification") # {}
        /\ Events(r, "close", "confirmation") # {}
        /\ Events(r, "data", "confirmation") = {}

\* C6: for one request each send function makes at most one connection
\* attempt, so at most two sessions are opened; a session carries at most
\* one message; and the confirmation's connection is attempted only after
\* the notification's session was closed.
C6_NoRetryNoReuse ==
    \A r \in Callers :
        /\ \A fn \in Sends :
              /\ Cardinality(Events(r, "open", fn) \cup Events(r, "refused", fn)) <= 1
              /\ Cardinality(Events(r, "data", fn)) <= 1
              /\ Cardinality(Events(r, "close", fn)) <= 1
        /\ Cardinality({i \in DOMAIN relay[r] : relay[r][i].ev = "open"}) <= 2
        /\ \A i \in DOMAIN relay[r] :
              /\ relay[r][i].fn = "confirmation"
                    => \A j \in Events(r, "open", "notification") :
                          \E k \in Events(r, "close", "notification") : j < k /\ k < i
              /\ relay[r][i].fn = "notification"
                    => \A j \in DOMAIN relay[r] :
                          relay[r][j].fn = "confirmation" => i < j
        /\ Len(errors[r]) <= 3

\* The notification's session failed at login and was not tried again; the
\* confirmation went out in a second session.
C6_Witness ==
    \E r \in Callers :
        /\ Done(r)
        /\ notification_sent[r] = Some(FALSE)
        /\ confirmation_sent[r] = Some(TRUE)
        /\ Len(relay[r]) = 5
        /\ relay[r][1].ev = "open" /\ relay[r][1].fn = "notification"
        /\ relay[r][2].ev = "close" /\ relay[r][2].fn = "notification"
        /\ relay[r][3].ev = "open" /\ relay[r][3].fn = "confirmation"
        /\ relay[r][4].ev = "data"
        /\ relay[r][5].ev = "close"

\* C7: every HTTP 500 answer of the endpoint carries the one fixed detail
\* string, whichever sends failed, at whichever step, with whichever
\* exception: two requests that failed for different reasons get the same
\* response.
C7_GenericErrorDetail ==
    /\ \A r \in Callers :
          (response[r] # None /\ response[r][1].status = 500)
          => response[r][1] = [status |-> 500, success |-> FALSE,
                               text |-> DetailGeneric]
    /\ \A r, q \in Callers :
          (/\ response[r] # None /\ response[q] # None
           /\ response[r][1].status = 500 /\ response[q][1].status = 500)
          => response[r] = response[q]

\* Two requests failed for different reasons at different steps and got the
\* same 500 response.
C7_Witness ==
    \E r, q \in Callers :
        /\ Done(r) /\ Done(q)
        /\ response[r][1].status = 500
        /\ response[q] = response[r]
        /\ errors[r][1].text = "SMTPConnectError"
        /\ errors[r][2].text = "SMTPAuthenticationError"
        /\ errors[q][1].text = "UnicodeEncodeError"
        /\ errors[q][2].text = "SMTPRecipientsRefused"

\* C8: requests of different callers do not interfere: the configuration
\* stays as loaded at startup, every message handed to the relay for a
\* request is built from that request's own fields and the configuration,
\* and the answer of a request is success exactly if one of its own two
\* sends returned True.
C8_NoInterference ==
    /\ EMAIL_CONFIG = StartupConfig
    /\ \A r \in Callers :
          /\ \A i \in Events(r, "data", "notification") :
                LET m == relay[r][i].msg[1]
                    c == consultation[r][1]
                IN  /\ m.from = StartupConfig.sender_email
                    /\ m.to = StartupConfig.receiver_email
                    /\ m.subject = "New Consultation Request from " \o c.name
                    /\ \A p \in DOMAIN m.parts :
                          /\ m.parts[p].name = c.name
                          /\ m.parts[p].email = c.email
                          /\ m.parts[p].message = c.message
          /\ \A i \in Events(r, "data", "confirmation") :
                LET m == relay[r][i].msg[1]
                    c == consultation[r][1]
                IN  /\ m.from = StartupConfig.sender_email
                    /\ m.to = c.email
                    /\ \A p \in DOMAIN m.parts : m.parts[p].name = c.name
          /\ Done(r)
             => (response[r][1].success
                   <=> (\/ notification_sent[r] = Some(TRUE)
                        \/ confirmation_sent[r] = Some(TRUE)))

\* Ann's and Bob's requests were in flight together; Bob's confirmation went
\* to Bob and Ann's to Ann, and one was answered with success, the other
\* with the error.
C8_Witness ==
    \E r, q \in Callers :
        /\ Done(r) /\ Done(q)
        /\ consultation[r][1].name = "Ann" /\ consultation[q][1].name = "Bob"
        /\ \E i \in Events(r, "data", "confirmation") :
              relay[r][i].msg[1].to = AnnAddr
        /\ \E i \in Events(q, "data", "confirmation") :
              relay[q][i].msg[1].to = BobAddr
        /\ response[r][1].success
        /\ ~response[q][1].success

\* C9: in both parts of the notification the company slot holds "Not
\* provided" when the request's company is None or empty, and the submitted
\* company otherwise.
C9_CompanyPlaceholder ==
    \A r \in Callers :
        (msg[r] # None /\ pc[r].fn = "notification")
        => LET company == consultation[r][1].company
               parts   == msg[r][1].parts
           IN  /\ Len(parts) = 2
               /\ parts[1].subtype = "plain"
               /\ parts[2].subtype = "html"
               /\ \A p \in DOMAIN parts :
                     parts[p].company =
                        (IF company = None \/ company = Some("")
                         THEN "Not provided" ELSE company[1])

\* An empty company was rendered as the placeholder in a notification the
\* relay accepted.
C9_Witness ==
    \E r \in Callers :
        /\ consultation[r] # None
        /\ consultation[r][1].company = Some("")
        /\ \E i \in Events(r, "data", "notification") :
              /\ relay[r][i].msg[1].parts[1].company = "Not provided"
              /\ relay[r][i].msg[1].parts[2].company = "Not provided"

\* C10: the relay accepts a message only in a session that has completed
\* connect, STARTTLS and login, in that order, and before that session is
\* closed; a send returned True only if its message was accepted so; and
\* after a failure of STARTTLS or login the session has taken no message.
C10_SessionOrder ==
    \A r \in Callers :
        /\ \A i \in DOMAIN relay[r] :
              relay[r][i].ev = "data"
              => /\ relay[r][i].via = AllSteps
                 /\ relay[r][i].msg # None
                 /\ i > 1
                 /\ relay[r][i - 1].ev = "open"
                 /\ relay[r][i - 1].fn = relay[r][i].fn
                 /\ i < Len(relay[r])
                    => /\ relay[r][i + 1].ev = "close"
                       /\ relay[r][i + 1].fn = relay[r][i].fn
        /\ notification_sent[r] = Some(TRUE)
              => Events(r, "data", "notification") # {}
        /\ confirmation_sent[r] = Some(TRUE)
              => Events(r, "data", "confirmation") # {}
        /\ (/\ pc[r].fn \in Sends
            /\ exc[r] # None
            /\ exc[r][1].type \in {"SMTPNotSupportedError", "SMTPAuthenticationError"})
           => Events(r, "data", pc[r].fn) = {}
        /\ (pc[r].fn \in Sends /\ pc[r].at = "send_message")
           => server[r] = AllSteps

\* Both sends returned True, each after its message was accepted in an
\* authenticated session.
C10_Witness ==
    \E r \in Callers :
        /\ Done(r)
        /\ notification_sent[r] = Some(TRUE)
        /\ confirmation_sent[r] = Some(TRUE)
        /\ Len(relay[r]) = 6
        /\ relay[r][2].ev = "data" /\ relay[r][2].via = AllSteps
        /\ relay[r][5].ev = "data" /\ relay[r][5].via = AllSteps

====
